---- MODULE Spec2Model ----
(***************************************************************************)
(* A model of penman's PENMANCodec (src/penman/codec.py): the recursive-   *)
(* descent notation parser, the comment/metadata parser, the alignment     *)
(* marker decoder, the triple parser and the tree formatter.               *)
(*                                                                         *)
(* Text is a sequence of one-character strings.  A token is a record       *)
(* [type, text]; the value of an atom token is its text.  Python's None    *)
(* (an absent id, label, prefix) is the empty sequence: the lexer never    *)
(* delivers an empty symbol and the regular expression never captures an   *)
(* empty prefix, so nothing else is modelled by it.                        *)
(***************************************************************************)
EXTENDS Integers, Sequences, FiniteSets, TLC

VARIABLES
    lexer,      \* the token source: [alphabet, limit] of the stream still to come
    tokens,     \* the tokens the iterator has produced, the lookahead included
    pos,        \* the cursor: how many tokens have been consumed
    pc,         \* the parser's position in the code
    stack,      \* one frame per node whose parse is in progress (the call stack)
    meta,       \* _parse_comments' metadata dict, as a sequence of <<key, value>>
    tree,       \* the result of parse: [node, metadata], or NoTree
    text,       \* a piece of text: the marker text, or format's output
    marker,     \* the result of _parse_alignment
    layout,     \* format's arguments: [indent, compact]
    tree0,      \* the Tree that was formatted
    triples     \* parse_triples' list

vars == <<lexer, tokens, pos, pc, stack, meta, tree, text, marker, layout,
          tree0, triples>>

None == <<>>
NoTree == [node |-> [id |-> None, edges |-> <<>>], metadata |-> <<>>, ok |-> FALSE]

\* ------------------------------------------------------------------ bounds
MaxMarkerLen == 6
MaxTokens == 7
MaxTripleTokens == 12
MaxIndent == 2
MaxEdges == 3
MaxRTTokens == 7
MaxComments == 3

\* ------------------------------------------------------------- characters
Letters ==
    { "a", "b", "c", "d", "e", "f", "g", "h", "i", "j", "k", "l", "m",
      "n", "o", "p", "q", "r", "s", "t", "u", "v", "w", "x", "y", "z",
      "A", "B", "C", "D", "E", "F", "G", "H", "I", "J", "K", "L", "M",
      "N", "O", "P", "Q", "R", "S", "T", "U", "V", "W", "X", "Y", "Z" }
DigitChars == <<"0", "1", "2", "3", "4", "5", "6", "7", "8", "9">>
IsLetter(c) == c \in Letters
IsDigit(c) == \E i \in 1..10 : DigitChars[i] = c
DigitVal(c) == (CHOOSE i \in 1..10 : DigitChars[i] = c) - 1

\* int(s) for a run of digits: the value of its first n digits
RECURSIVE ToIntUpTo(_, _)
ToIntUpTo(ds, n) ==
    IF n = 0 THEN 0 ELSE ToIntUpTo(ds, n - 1) * 10 + DigitVal(ds[n])
ToInt(ds) == ToIntUpTo(ds, Len(ds))

\* s.split(','): the pieces between the commas, in order
SplitComma(s) ==
    LET commas == {i \in 1..Len(s) : s[i] = ","}
        \* the k-th cut: the start, the commas in order, the end
        cut(k) == IF k = 0 THEN 0
                  ELSE IF k > Cardinality(commas) THEN Len(s) + 1
                  ELSE CHOOSE p \in commas :
                          Cardinality({q \in commas : q < p}) = k - 1
    IN [k \in 1..(Cardinality(commas) + 1) |->
            SubSeq(s, cut(k - 1) + 1, cut(k) - 1)]

\* ------------------------------------------------ the alignment sub-grammar
\* the two marker classes, told apart by their mode attribute
RoleAlignment == 1
Alignment == 2

\* \d+(?:,\d+)* matches the whole of s: digits in runs, single commas between
IsIndexList(s) ==
    /\ s # <<>>
    /\ \A i \in 1..Len(s) : IsDigit(s[i]) \/ s[i] = ","
    /\ s[1] # "," /\ s[Len(s)] # ","
    /\ \A i \in 1..(Len(s) - 1) : ~(s[i] = "," /\ s[i + 1] = ",")

\* (?P<indices>\d+(?:,\d+)*) from index i, with the prefix group as given:
\* the quantifiers are greedy, so the group is the longest match from i
TryIndices(t, i, prefix) ==
    LET ends == {e \in i..Len(t) : IsIndexList(SubSeq(t, i, e))}
    IN IF ends = {}
       THEN [matched |-> FALSE, prefix |-> None, indices |-> <<>>]
       ELSE [matched |-> TRUE, prefix |-> prefix,
             indices |-> SubSeq(t, i, CHOOSE e \in ends :
                                          \A d \in ends : d <= e)]

\* re.match(r'~(?P<prefix>[a-zA-Z]\.?)?(?P<indices>\d+(?:,\d+)*)', text):
\* anchored at the start only; the optional groups are tried greedily first
\* and given up on backtracking.
ReMatch(t) ==
    IF Len(t) = 0 \/ t[1] # "~"
    THEN [matched |-> FALSE, prefix |-> None, indices |-> <<>>]
    ELSE LET hasLetter == Len(t) >= 2 /\ IsLetter(t[2])
             hasDot == hasLetter /\ Len(t) >= 3 /\ t[3] = "."
             withDot == TryIndices(t, 4, <<t[2], ".">>)
             withLetter == TryIndices(t, 3, <<t[2]>>)
         IN IF hasDot /\ withDot.matched THEN withDot
            ELSE IF hasLetter /\ withLetter.matched THEN withLetter
            ELSE TryIndices(t, 2, None)

\* tuple(map(int, m.group('indices').split(',')))
Indices(group) ==
    CHOOSE r \in { [i \in 1..Len(parts) |-> ToInt(parts[i])] :
                   parts \in {SplitComma(group)} } : TRUE

\* _parse_alignment, after tokens.expect('ALIGNMENT'): cls(indices, prefix)
\* (m is bound to the match once, as the code binds it)
ParseAlignment(t, cls) ==
    CHOOSE r \in
        { IF m.matched
          THEN [mode |-> cls, indices |-> Indices(m.indices),
                prefix |-> m.prefix]
          ELSE [mode |-> cls, indices |-> <<>>, prefix |-> None] :
          m \in {ReMatch(t)} } : TRUE

\* ----------------------------------------------------------------- tokens
IDENTIFIERS == {"SYMBOL"}
ATOMS == {"SYMBOL", "STRING", "INTEGER", "FLOAT"}

Tok(type, txt) == [type |-> type, text |-> txt]
\* what peek() reports once the stream is exhausted: a token of no type
EOFToken == Tok("EOF", <<>>)

\* ------------------------------------------------------------ the metadata
\* comment.rpartition('::'): split at the last occurrence of '::'
RPartition(s) ==
    LET at == {i \in 1..(Len(s) - 1) : s[i] = ":" /\ s[i + 1] = ":"}
    IN IF at = {}
       THEN [head |-> <<>>, found |-> FALSE, tail |-> s]
       ELSE LET i == CHOOSE k \in at : \A j \in at : j <= k
            IN [head |-> SubSeq(s, 1, i - 1), found |-> TRUE,
                tail |-> SubSeq(s, i + 2, Len(s))]

\* meta.partition(' '): split at the first space
Partition(s) ==
    LET at == {i \in 1..Len(s) : s[i] = " "}
    IN IF at = {}
       THEN [head |-> s, tail |-> <<>>]
       ELSE LET i == CHOOSE k \in at : \A j \in at : k <= j
            IN [head |-> SubSeq(s, 1, i - 1), tail |-> SubSeq(s, i + 1, Len(s))]

\* metadata[key] = value on a dict: a present key keeps its place
DictSet(d, key, value) ==
    IF \E i \in 1..Len(d) : d[i][1] = key
    THEN [i \in 1..Len(d) |-> IF d[i][1] = key THEN <<key, value>> ELSE d[i]]
    ELSE Append(d, <<key, value>>)

\* the inner loop of _parse_comments on one comment's text
RECURSIVE ParseCommentText(_, _)
ParseCommentText(d, comment) ==
    IF comment = <<>> THEN d
    ELSE LET p == RPartition(comment)
             kv == Partition(p.tail)
         IN IF p.found
            THEN ParseCommentText(DictSet(d, kv.head, kv.tail), p.head)
            ELSE d

\* ------------------------------------------------------- the token iterator
Peek == tokens[pos + 1]

\* what the token source may deliver next: nothing new while the stream
\* already holds tokens beyond the lookahead, and only the end once the
\* stream has reached its limit
Draw ==
    IF pos + 1 < Len(tokens) THEN {EOFToken}
    ELSE IF Len(tokens) < lexer.limit THEN lexer.alphabet \cup {EOFToken}
    ELSE {EOFToken}

\* the stream after next(): the token after the lookahead has been fetched
Pulled(t) == IF pos + 1 < Len(tokens) THEN tokens ELSE Append(tokens, t)

\* --------------------------------------------------------- the tree's parts
NoTarget == <<"none", <<>>>>
AtomTarget(v) == <<"atom", v>>
NodeTarget(n) == <<"node", n>>
Edge(role, target, epi) == [role |-> role, target |-> target, epi |-> epi]
Node(id, edges) == [id |-> id, edges |-> edges]
Tree(node, metadata) == [node |-> node, metadata |-> metadata, ok |-> TRUE]

\* a frame of the call stack: the node being parsed (id, edges) and the edge
\* being parsed in it (role, target, epi)
Frame(id, edges) ==
    [id |-> id, edges |-> edges, role |-> None, target |-> NoTarget,
     epi |-> <<>>]
Top == stack[Len(stack)]
SetTop(stk, f) == [stk EXCEPT ![Len(stk)] = f]
\* the edge in progress is returned and appended to the node's edges
AppendEdge(stk) ==
    LET f == stk[Len(stk)]
    IN SetTop(stk, [f EXCEPT !.edges = Append(f.edges,
                                              Edge(f.role, f.target, f.epi)),
                             !.role = None, !.target = NoTarget,
                             !.epi = <<>>])

Raise == [pc |-> "error", stack |-> <<>>]

\* ---------------------------------------------- the parser's decisions
\* Each takes the call stack and `la`, the type of the lookahead token, and
\* gives the position the parser is at before its next token is consumed.

\* _parse_node, the loop over edges and the closing expect('RPAREN')
EdgeLoop(stk, la) ==
    IF la # "RPAREN" THEN [pc |-> "role", stack |-> stk]
    ELSE [pc |-> "close", stack |-> stk]

\* _parse_node, after the id: the optional node label
AfterId(stk, la) ==
    IF la = "SLASH" THEN [pc |-> "slash", stack |-> stk]
    ELSE EdgeLoop(stk, la)

\* _parse_node, after '(': the empty node, or the id
AfterOpen(stk, la) ==
    IF la # "RPAREN" THEN [pc |-> "id", stack |-> stk]
    ELSE [pc |-> "close", stack |-> stk]

\* _parse_node_label, after '/': the label may be missing
AfterSlash(stk, la) ==
    IF la \in ATOMS THEN [pc |-> "label", stack |-> stk]
    ELSE EdgeLoop(AppendEdge(stk), la)

\* _parse_node_label, after the label: its optional alignment
AfterLabel(stk, la) ==
    IF la = "ALIGNMENT" THEN [pc |-> "label_align", stack |-> stk]
    ELSE EdgeLoop(AppendEdge(stk), la)

\* (a variant of EdgeTarget that takes any other token for a missing target)
EdgeTargetLenient(stk, la) ==
    IF la \in ATOMS THEN [pc |-> "atom", stack |-> stk]
    ELSE IF la = "LPAREN" THEN [pc |-> "open", stack |-> stk]
    ELSE EdgeLoop(AppendEdge(stk), la)

\* _parse_edge, after the role and its alignment: the target
EdgeTarget(stk, la) ==
    IF la \in ATOMS THEN [pc |-> "atom", stack |-> stk]
    ELSE IF la = "LPAREN" THEN [pc |-> "open", stack |-> stk]
    ELSE IF la \notin {"ROLE", "RPAREN"} THEN Raise
    ELSE EdgeLoop(AppendEdge(stk), la)

\* _parse_edge, after the role: its optional alignment
AfterRole(stk, la) ==
    IF la = "ALIGNMENT" THEN [pc |-> "role_align", stack |-> stk]
    ELSE EdgeTarget(stk, la)

\* _parse_edge, after an atomic target: its optional alignment
AfterAtom(stk, la) ==
    IF la = "ALIGNMENT" THEN [pc |-> "target_align", stack |-> stk]
    ELSE EdgeLoop(AppendEdge(stk), la)

\* _parse_node returns (id, edges): to parse, or to the _parse_edge that
\* called it, where the node is the target of the edge in progress
AfterClose(stk, la) ==
    LET n == Node(stk[Len(stk)].id, stk[Len(stk)].edges)
        rest == SubSeq(stk, 1, Len(stk) - 1)
    IN IF rest = <<>> THEN [pc |-> "done", stack |-> <<Frame(n.id, n.edges)>>]
       ELSE EdgeLoop(AppendEdge(SetTop(rest,
                [rest[Len(rest)] EXCEPT !.target = NodeTarget(n)])), la)

\* _parse_comments, the loop test, and parse's call of _parse_node
AfterComment(la) ==
    IF la = "COMMENT" THEN "comment" ELSE "open"

\* ------------------------------------------------------ the parser's steps
\* a step consumed the lookahead and left the parser at r
Goto(r, ts) ==
    /\ tokens' = ts
    /\ pos' = pos + 1
    /\ pc' = r.pc
    /\ stack' = IF r.pc = "done" THEN <<>> ELSE r.stack
    /\ tree' = IF r.pc = "done"
               THEN Tree(Node(r.stack[1].id, r.stack[1].edges), meta)
               ELSE tree

\* tokens.expect fails: the token was taken and a syntax error is raised
ExpectFails ==
    /\ pos' = pos + (IF Peek.type = "EOF" THEN 0 ELSE 1)
    /\ pc' = "error"
    /\ stack' = <<>>
    /\ UNCHANGED <<tokens, tree>>

\* _parse_comments: one iteration of the outer loop
ParseComment ==
    /\ pc = "comment"
    /\ \E t \in Draw :
        /\ tokens' = Pulled(t)
        /\ pos' = pos + 1
        /\ pc' = AfterComment(Pulled(t)[pos + 2].type)
    /\ meta' = ParseCommentText(meta, Peek.text)
    /\ UNCHANGED <<lexer, stack, tree, text, marker, layout, tree0, triples>>

\* _parse_node: tokens.expect('LPAREN')
NodeOpen ==
    /\ pc = "open"
    /\ IF Peek.type = "LPAREN"
       THEN \E t \in Draw :
               Goto(AfterOpen(Append(stack, Frame(None, <<>>)),
                              Pulled(t)[pos + 2].type), Pulled(t))
       ELSE ExpectFails
    /\ UNCHANGED <<lexer, meta, text, marker, layout, tree0, triples>>

\* _parse_node: id = tokens.expect(*self.IDENTIFIERS).value
NodeId ==
    /\ pc = "id"
    /\ IF Peek.type \in IDENTIFIERS
       THEN \E t \in Draw :
               Goto(AfterId(SetTop(stack, [Top EXCEPT !.id = Peek.text]),
                            Pulled(t)[pos + 2].type), Pulled(t))
       ELSE ExpectFails
    /\ UNCHANGED <<lexer, meta, text, marker, layout, tree0, triples>>

\* _parse_node_label: tokens.expect('SLASH')
NodeSlash ==
    /\ pc = "slash"
    /\ \E t \in Draw :
          Goto(AfterSlash(SetTop(stack, [Top EXCEPT !.role = <<"/">>]),
                          Pulled(t)[pos + 2].type), Pulled(t))
    /\ UNCHANGED <<lexer, meta, text, marker, layout, tree0, triples>>

\* _parse_node_label: label = tokens.next().value
NodeLabel ==
    /\ pc = "label"
    /\ \E t \in Draw :
          Goto(AfterLabel(SetTop(stack,
                   [Top EXCEPT !.target = AtomTarget(Peek.text)]),
                          Pulled(t)[pos + 2].type), Pulled(t))
    /\ UNCHANGED <<lexer, meta, text, marker, layout, tree0, triples>>

\* _parse_node_label: epis.append(self._parse_alignment(tokens, Alignment))
LabelAlign ==
    /\ pc = "label_align"
    /\ marker' = ParseAlignment(Peek.text, Alignment)
    /\ \E t \in Draw :
          Goto(EdgeLoop(AppendEdge(SetTop(stack,
                   [Top EXCEPT !.epi = Append(Top.epi, marker')])),
                        Pulled(t)[pos + 2].type), Pulled(t))
    /\ UNCHANGED <<lexer, meta, text, layout, tree0, triples>>

\* (a variant of EdgeRole that leaves a token that is no role where it is)
EdgeRoleLooksAgain ==
    /\ pc = "role"
    /\ IF Peek.type = "ROLE"
       THEN \E t \in Draw :
               LET r == AfterRole(SetTop(stack, [Top EXCEPT !.role = Peek.text]),
                                  Pulled(t)[pos + 2].type)
               IN Goto(r, Pulled(t))
       ELSE UNCHANGED <<tokens, pos, pc, stack, tree>>
    /\ UNCHANGED <<lexer, meta, text, marker, layout, tree0, triples>>

\* _parse_edge: role = tokens.expect('ROLE').text
EdgeRole ==
    /\ pc = "role"
    /\ IF Peek.type = "ROLE"
       THEN \E t \in Draw :
               LET r == AfterRole(SetTop(stack, [Top EXCEPT !.role = Peek.text]),
                                  Pulled(t)[pos + 2].type)
               IN Goto(r, Pulled(t))
       ELSE ExpectFails
    /\ UNCHANGED <<lexer, meta, text, marker, layout, tree0, triples>>

\* (a variant of RoleAlign that keeps no marker without indices)
RoleAlignDropsEmpty ==
    /\ pc = "role_align"
    /\ marker' = ParseAlignment(Peek.text, RoleAlignment)
    /\ \E t \in Draw :
          Goto(EdgeTarget(SetTop(stack,
                   [Top EXCEPT !.epi = IF marker'.indices = <<>> THEN Top.epi
                                       ELSE Append(Top.epi, marker')]),
                          Pulled(t)[pos + 2].type), Pulled(t))
    /\ UNCHANGED <<lexer, meta, text, layout, tree0, triples>>

\* _parse_edge: epidata.append(self._parse_alignment(tokens, RoleAlignment))
RoleAlign ==
    /\ pc = "role_align"
    /\ marker' = ParseAlignment(Peek.text, RoleAlignment)
    /\ \E t \in Draw :
          Goto(EdgeTarget(SetTop(stack,
                   [Top EXCEPT !.epi = Append(Top.epi, marker')]),
                          Pulled(t)[pos + 2].type), Pulled(t))
    /\ UNCHANGED <<lexer, meta, text, layout, tree0, triples>>

\* _parse_edge: target = tokens.next().value
EdgeAtom ==
    /\ pc = "atom"
    /\ \E t \in Draw :
          Goto(AfterAtom(SetTop(stack,
                   [Top EXCEPT !.target = AtomTarget(Peek.text)]),
                         Pulled(t)[pos + 2].type), Pulled(t))
    /\ UNCHANGED <<lexer, meta, text, marker, layout, tree0, triples>>

\* _parse_edge: epidata.append(self._parse_alignment(tokens, Alignment))
TargetAlign ==
    /\ pc = "target_align"
    /\ marker' = ParseAlignment(Peek.text, Alignment)
    /\ \E t \in Draw :
          Goto(EdgeLoop(AppendEdge(SetTop(stack,
                   [Top EXCEPT !.epi = Append(Top.epi, marker')])),
                        Pulled(t)[pos + 2].type), Pulled(t))
    /\ UNCHANGED <<lexer, meta, text, layout, tree0, triples>>

\* _parse_node: tokens.expect('RPAREN'); return (id, edges)
NodeClose ==
    /\ pc = "close"
    /\ \E t \in Draw :
          Goto(AfterClose(stack, Pulled(t)[pos + 2].type), Pulled(t))
    /\ UNCHANGED <<lexer, meta, text, marker, layout, tree0, triples>>

ParseStep ==
    \/ ParseComment
    \/ NodeOpen
    \/ NodeId
    \/ NodeSlash
    \/ NodeLabel
    \/ LabelAlign
    \/ EdgeRole
    \/ RoleAlign
    \/ EdgeAtom
    \/ TargetAlign
    \/ NodeClose

\* -------------------------------------------------------- parse_triples
\* The frame holds the locals role, source and target; target keeps the
\* value of the previous iteration until one of the two branches assigns it.
TripleFrame == [role |-> None, source |-> None, target |-> NoTarget]

\* parse_triples, after ',': the target
AfterComma(stk, la) ==
    IF la \in ATOMS THEN [pc |-> "t_target", stack |-> stk]
    ELSE IF la = "RPAREN"
    THEN [pc |-> "t_rparen",
          stack |-> SetTop(stk, [stk[Len(stk)] EXCEPT !.target = NoTarget])]
    ELSE [pc |-> "t_rparen", stack |-> stk]

\* parse_triples, after ')': continue only if the triple is followed by ^
AfterTriple(la) ==
    IF la = "CARET" THEN "t_caret" ELSE "t_done"

TGoto(p, stk, ts) ==
    /\ tokens' = ts
    /\ pos' = pos + 1
    /\ pc' = p
    /\ stack' = stk

\* role = tokens.expect('SYMBOL').text
TripleRole ==
    /\ pc = "t_role"
    /\ IF Peek.type = "SYMBOL"
       THEN \E t \in Draw :
               TGoto("t_lparen", SetTop(stack, [Top EXCEPT !.role = Peek.text]),
                     Pulled(t))
       ELSE ExpectFails
    /\ UNCHANGED <<lexer, meta, tree, text, marker, layout, tree0, triples>>

\* tokens.expect('LPAREN')
TripleOpen ==
    /\ pc = "t_lparen"
    /\ IF Peek.type = "LPAREN"
       THEN \E t \in Draw : TGoto("t_source", stack, Pulled(t))
       ELSE ExpectFails
    /\ UNCHANGED <<lexer, meta, tree, text, marker, layout, tree0, triples>>

\* source = tokens.expect(*self.IDENTIFIERS).text
TripleSource ==
    /\ pc = "t_source"
    /\ IF Peek.type \in IDENTIFIERS
       THEN \E t \in Draw :
               TGoto("t_comma", SetTop(stack, [Top EXCEPT !.source = Peek.text]),
                     Pulled(t))
       ELSE ExpectFails
    /\ UNCHANGED <<lexer, meta, tree, text, marker, layout, tree0, triples>>

\* tokens.expect('COMMA'), and the choice made on the lookahead after it
TripleComma ==
    /\ pc = "t_comma"
    /\ IF Peek.type = "COMMA"
       THEN \E t \in Draw :
               LET r == AfterComma(stack, Pulled(t)[pos + 2].type)
               IN TGoto(r.pc, r.stack, Pulled(t))
       ELSE ExpectFails
    /\ UNCHANGED <<lexer, meta, tree, text, marker, layout, tree0, triples>>

\* target = tokens.next().value
TripleTarget ==
    /\ pc = "t_target"
    /\ \E t \in Draw :
          TGoto("t_rparen",
                SetTop(stack, [Top EXCEPT !.target = AtomTarget(Peek.text)]),
                Pulled(t))
    /\ UNCHANGED <<lexer, meta, tree, text, marker, layout, tree0, triples>>

\* tokens.expect('RPAREN'); triples.append((source, role, target))
TripleClose ==
    /\ pc = "t_rparen"
    /\ IF Peek.type = "RPAREN"
       THEN /\ \E t \in Draw :
                  TGoto(AfterTriple(Pulled(t)[pos + 2].type),
                        IF AfterTriple(Pulled(t)[pos + 2].type) = "t_done"
                        THEN <<>> ELSE stack, Pulled(t))
            /\ triples' = Append(triples, <<Top.source, Top.role, Top.target>>)
       ELSE /\ ExpectFails
            /\ triples' = <<>>
    /\ UNCHANGED <<lexer, meta, tree, text, marker, layout, tree0>>

\* tokens.next() on the ^
TripleCaret ==
    /\ pc = "t_caret"
    /\ \E t \in Draw : TGoto("t_role", stack, Pulled(t))
    /\ UNCHANGED <<lexer, meta, tree, text, marker, layout, tree0, triples>>

TripleStep ==
    \/ TripleRole
    \/ TripleOpen
    \/ TripleSource
    \/ TripleComma
    \/ TripleTarget
    \/ TripleClose
    \/ TripleCaret

\* ------------------------------------------------------------ text helpers
Spaces(n) == [i \in 1..n |-> " "]

\* sep.join(parts)
RECURSIVE Join(_, _)
Join(sep, parts) ==
    IF parts = <<>> THEN <<>>
    ELSE IF Len(parts) = 1 THEN parts[1]
    ELSE parts[1] \o sep \o Join(sep, Tail(parts))

\* ''.join(parts)
Concat(parts) == Join(<<>>, parts)

\* str(n) of a non-negative integer
RECURSIVE IntToStr(_)
IntToStr(n) ==
    IF n < 10 THEN <<DigitChars[n + 1]>>
    ELSE IntToStr(n \div 10) \o <<DigitChars[(n % 10) + 1]>>

\* str(marker): `~`, the prefix, `.` if there is a prefix, the indices
\* joined by commas
MarkerStr(m) ==
    <<"~">> \o m.prefix \o (IF m.prefix # None THEN <<".">> ELSE <<>>)
            \o Join(<<",">>, [i \in 1..Len(m.indices) |-> IntToStr(m.indices[i])])

\* is_atomic(target): the target is not a node
IsAtomic(target) == target[1] # "node"

\* the ids of tree.nodes(): the identifiers that are some node's id
RECURSIVE NodeIds(_)
NodeIds(node) ==
    (IF node.id = None THEN {} ELSE {node.id})
    \cup UNION { IF node.edges[i].target[1] = "node"
                 THEN NodeIds(node.edges[i].target[2]) ELSE {} :
                 i \in 1..Len(node.edges) }

\* `target in ids`, for an atomic target
Aliased(target, ids) == target[1] = "atom" /\ target[2] \in ids

\* ------------------------------------------------------------ the formatter
\* format's indent argument: None, or an int (-1 asks for aligned columns)
IndentNone == <<"none", 0>>
IndentInt(n) == <<"int", n>>
IndentAuto == IndentInt(-1)

\* _format_node: the column of the node's edges, when lines are broken
NodeColumn(indent, column, id) ==
    IF indent = IndentAuto THEN column + Len(id) + 2
    ELSE column + indent[2]

\* _format_node: the joiner of the node's parts
Joiner(indent, column, id) ==
    IF indent = IndentNone THEN <<" ">>
    ELSE <<"\n">> \o Spaces(NodeColumn(indent, column, id))

\* (a variant of Compacted that leaves the parts of the run apart)
NotCompacted(parts) == parts

\* _format_node, when the compact run ends: `if parts: parts = [' '.join(parts)]`
Compacted(parts) ==
    IF parts # <<>> THEN <<Join(<<" ">>, parts)>> ELSE parts

\* _format_edge: the role as written
RoleText(role) ==
    IF role # <<"/">> /\ (role = <<>> \/ role[1] # ":") THEN <<":">> \o role
    ELSE role

\* _format_edge: ''.join(str(epi) for epi in epidata if epi.mode == mode)
EpiText(epidata, mode) ==
    Concat([i \in 1..Len(epidata) |->
               IF epidata[i].mode = mode THEN MarkerStr(epidata[i]) ELSE <<>>])

\* (a variant of EdgeColumn that leaves the role's markers out of the count)
EdgeColumnNoEpi(indent, column, role, role_epi) ==
    IF indent = IndentAuto THEN column + Len(role) + 1
    ELSE column

\* _format_edge: the column handed to a nested node
EdgeColumn(indent, column, role, role_epi) ==
    IF indent = IndentAuto THEN column + Len(role) + Len(role_epi) + 1
    ELSE column

\* (a variant of EdgeText that leaves the space out)
EdgeTextNoSpace(role, role_epi, target, target_epi) ==
    role \o role_epi \o target \o target_epi

\* _format_edge: '{}{} {!s}{}'.format(role, role_epi, target, target_epi)
EdgeText(role, role_epi, target, target_epi) ==
    role \o role_epi \o <<" ">> \o target \o target_epi

RECURSIVE FormatNode(_, _, _, _)
RECURSIVE FormatEdge(_, _, _, _)
RECURSIVE FormatParts(_, _, _, _, _, _, _)

\* _format_edge
FormatEdge(edge, indent, column, ids) ==
    LET role == RoleText(edge.role)
        role_epi == EpiText(edge.epi, RoleAlignment)
        target_epi == EpiText(edge.epi, Alignment)
        target == IF edge.target[1] = "none" THEN <<>>
                  ELSE IF ~IsAtomic(edge.target)
                  THEN FormatNode(edge.target[2], indent,
                                  EdgeColumn(indent, column, role, role_epi), ids)
                  ELSE edge.target[2]
    IN EdgeText(role, role_epi, target, target_epi)

\* _format_node, the loop over the edges from the i-th on, and the check
\* after it
FormatParts(edges, i, indent, column, ids, compact, parts) ==
    IF i > Len(edges)
    THEN IF compact THEN <<Join(<<" ">>, parts)>> ELSE parts
    ELSE LET target == edges[i].target
             ends == compact /\ (~IsAtomic(target) \/ Aliased(target, ids))
             before == IF ends THEN Compacted(parts) ELSE parts
         IN FormatParts(edges, i + 1, indent, column, ids, compact /\ ~ends,
                        Append(before, FormatEdge(edges[i], indent, column, ids)))

\* _format_node
FormatNode(node, indent, column, ids) ==
    IF node.id = None THEN <<"(", ")">>
    ELSE IF node.edges = <<>> THEN <<"(">> \o node.id \o <<")">>
    ELSE LET col == IF indent = IndentNone THEN column
                    ELSE NodeColumn(indent, column, node.id)
         IN <<"(">> \o node.id \o <<" ">>
             \o Join(Joiner(indent, column, node.id),
                     FormatParts(node.edges, 1, indent, col, ids, ids # {}, <<>>))
             \o <<")">>

\* format: '# ::{} {}'.format(key, value) for each metadata item
MetaLine(kv) == <<"#", " ", ":", ":">> \o kv[1] \o <<" ">> \o kv[2]

\* format
Format(t, indent, compact) ==
    LET ids == IF compact THEN NodeIds(t.node) ELSE {}
    IN Join(<<"\n">>, [i \in 1..Len(t.metadata) |-> MetaLine(t.metadata[i])]
                      \o <<FormatNode(t.node, indent, 0, ids)>>)

\* --------------------------------------------------------------- the lexer
\* the characters that end a symbol, a role or an alignment
Delims == {" ", "\n", "(", ")", "/", ":", "~"}

\* the last index of the run of non-delimiters that starts at i
RunEnd(s, i) ==
    LET stops == {k \in i..Len(s) : s[k] \in Delims}
    IN IF stops = {} THEN Len(s)
       ELSE (CHOOSE k \in stops : \A j \in stops : k <= j) - 1

\* the last index of the line that holds index i
LineEnd(s, i) ==
    LET stops == {k \in i..Len(s) : s[k] = "\n"}
    IN IF stops = {} THEN Len(s)
       ELSE (CHOOSE k \in stops : \A j \in stops : k <= j) - 1

\* the token that starts at index i of s, which is no white space: its type
\* and the index of its last character
TokenAt(s, i) ==
    IF s[i] = "(" THEN [type |-> "LPAREN", last |-> i]
    ELSE IF s[i] = ")" THEN [type |-> "RPAREN", last |-> i]
    ELSE IF s[i] = "/" THEN [type |-> "SLASH", last |-> i]
    ELSE IF s[i] = "#" THEN [type |-> "COMMENT", last |-> LineEnd(s, i)]
    ELSE IF s[i] = ":" THEN [type |-> "ROLE", last |-> RunEnd(s, i + 1)]
    ELSE IF s[i] = "~" THEN [type |-> "ALIGNMENT", last |-> RunEnd(s, i + 1)]
    ELSE IF \A k \in i..RunEnd(s, i) : IsDigit(s[k])
    THEN [type |-> "INTEGER", last |-> RunEnd(s, i)]
    ELSE [type |-> "SYMBOL", last |-> RunEnd(s, i)]

\* the indices of s at which a token starts, ascending, from index i on
RECURSIVE TokenStarts(_, _)
TokenStarts(s, i) ==
    IF i > Len(s) THEN <<>>
    ELSE IF s[i] \in {" ", "\n"} THEN TokenStarts(s, i + 1)
    ELSE <<i>> \o TokenStarts(s, TokenAt(s, i).last + 1)

\* lex(s): the tokens of s
Lex(s) ==
    LET at == TokenStarts(s, 1)
    IN [k \in 1..Len(at) |->
           Tok(TokenAt(s, at[k]).type, SubSeq(s, at[k], TokenAt(s, at[k]).last))]

\* -------------------------------------------------- parsing a token stream
ParseAlphabet ==
    { Tok("LPAREN", <<"(">>), Tok("RPAREN", <<")">>), Tok("SLASH", <<"/">>),
      Tok("ROLE", <<":", "A", "R", "G", "0">>),
      Tok("ROLE", <<":", "A", "R", "G", "1">>),
      Tok("SYMBOL", <<"a">>), Tok("SYMBOL", <<"b">>),
      Tok("STRING", <<"\"", "s", "\"">>),
      Tok("ALIGNMENT", <<"~", "e", ".", "1", ",", "2">>),
      Tok("ALIGNMENT", <<"~">>),
      Tok("COMMENT", <<"#", " ", ":", ":", "i", "d", " ", "1">>),
      Tok("COMMA", <<",">>) }

TripleAlphabet ==
    { Tok("SYMBOL", <<"r">>), Tok("SYMBOL", <<"a">>),
      Tok("STRING", <<"\"", "s", "\"">>),
      Tok("LPAREN", <<"(">>), Tok("RPAREN", <<")">>),
      Tok("COMMA", <<",">>), Tok("CARET", <<"^">>) }

\* the variables the parsers do not use
Idle ==
    /\ text = <<>>
    /\ marker = [mode |-> Alignment, indices |-> <<>>, prefix |-> None]
    /\ layout = [indent |-> IndentNone, compact |-> FALSE]
    /\ tree0 = NoTree

\* parse(s): lex(s, pattern=PENMAN_RE), _parse_comments, _parse_node
InitParse ==
    /\ lexer = [alphabet |-> ParseAlphabet, limit |-> MaxTokens]
    /\ tokens \in {<<t>> : t \in ParseAlphabet \cup {EOFToken}}
    /\ pos = 0
    /\ pc = AfterComment(tokens[1].type)
    /\ stack = <<>>
    /\ meta = <<>>
    /\ tree = NoTree
    /\ triples = <<>>
    /\ Idle

\* parse_triples(s): lex(s, pattern=TRIPLE_RE), triples = []
InitTriples ==
    /\ lexer = [alphabet |-> TripleAlphabet, limit |-> MaxTripleTokens]
    /\ tokens \in {<<t>> : t \in TripleAlphabet \cup {EOFToken}}
    /\ pos = 0
    /\ pc = "t_role"
    /\ stack = <<TripleFrame>>
    /\ meta = <<>>
    /\ tree = NoTree
    /\ triples = <<>>
    /\ Idle

Init == InitParse \/ InitTriples

Next == ParseStep \/ TripleStep
Spec == Init /\ [][Next]_vars

\* the termination of the parsers needs only that a parser which can take a
\* step does take it: each call runs to its return or its raise
SpecLive == Spec /\ WF_vars(Next)

\* ------------------------------------------------- decoding a marker text
MarkerChars == {"~", "e", ".", "1", "2", ","}

\* the texts of at most n characters over MarkerChars
RECURSIVE TextsUpTo(_)
TextsUpTo(n) ==
    IF n = 0 THEN {<<>>}
    ELSE TextsUpTo(n - 1)
         \cup {Append(s, c) : s \in {u \in TextsUpTo(n - 1) : Len(u) = n - 1},
                              c \in MarkerChars}

\* the text of an ALIGNMENT token starts with `~`
InitAlign ==
    /\ text \in {<<"~">> \o s : s \in TextsUpTo(MaxMarkerLen - 1)}
    /\ pc = "align"
    /\ marker = [mode |-> Alignment, indices |-> <<>>, prefix |-> None]
    /\ lexer = [alphabet |-> {}, limit |-> 0]
    /\ tokens = <<>>
    /\ pos = 0
    /\ stack = <<>>
    /\ meta = <<>>
    /\ tree = NoTree
    /\ layout = [indent |-> IndentNone, compact |-> FALSE]
    /\ tree0 = NoTree
    /\ triples = <<>>

\* _parse_alignment on the text, for either marker class
DecodeMarker ==
    /\ pc = "align"
    /\ \E cls \in {RoleAlignment, Alignment} :
          marker' = ParseAlignment(text, cls)
    /\ pc' = "aligned"
    /\ UNCHANGED <<lexer, tokens, pos, stack, meta, tree, text, layout, tree0,
                   triples>>

SpecAlign == InitAlign /\ [][DecodeMarker]_vars

\* ------------------------------------------------- formatting and reparsing
Layouts ==
    [indent : {IndentNone, IndentAuto} \cup {IndentInt(n) : n \in 1..MaxIndent},
     compact : BOOLEAN]

\* format(tree, indent, compact) on the Tree at hand
FormatTree ==
    /\ pc \in {"format", "done"}
    /\ ~tree0.ok
    /\ \E lay \in Layouts :
          /\ layout' = lay
          /\ text' = Format(tree, lay.indent, lay.compact)
    /\ tree0' = tree
    /\ pc' = "formatted"
    /\ UNCHANGED <<lexer, tokens, pos, stack, meta, tree, marker, triples>>

\* parse(text) on format's output: lex(s, pattern=PENMAN_RE) and the first
\* test of _parse_comments' loop
Reparse ==
    /\ pc = "formatted"
    /\ lexer' = [alphabet |-> {}, limit |-> 0]
    /\ tokens' = Lex(text)
    /\ pos' = 0
    /\ pc' = AfterComment(Lex(text)[1].type)
    /\ stack' = <<>>
    /\ meta' = <<>>
    /\ tree' = NoTree
    /\ UNCHANGED <<text, marker, layout, tree0, triples>>

\* parse(format(tree)): format with its default arguments, indent -1 and
\* compact False
DefaultLayout == [indent |-> IndentAuto, compact |-> FALSE]
ReparseDefault == layout = DefaultLayout /\ Reparse

NextFormat == FormatTree \/ ReparseDefault \/ ParseStep
NextRT == FormatTree \/ Reparse \/ ParseStep

\* ---- the Trees handed to format
RoleMark == [mode |-> RoleAlignment, indices |-> <<1>>, prefix |-> None]
TargetMark == [mode |-> Alignment, indices |-> <<2>>, prefix |-> None]
Ids == {<<"a">>, <<"b", "b">>}
Role == <<":", "r">>

\* the edges with no node below them: a label, an atom, an atom that is the
\* id of a node in some Trees, no target
AtomEdges ==
    { Edge(<<"/">>, AtomTarget(<<"x">>), <<TargetMark>>),
      Edge(Role, AtomTarget(<<"x">>), <<>>),
      Edge(Role, AtomTarget(<<"a">>), <<TargetMark>>),
      Edge(Role, NoTarget, <<>>) }

\* the edges to the node n: with a role alignment
NodeEdges(n) == { Edge(Role, NodeTarget(n), <<RoleMark>>) }

RECURSIVE NodesOfSize(_)
RECURSIVE EdgesOfSize(_)
RECURSIVE EdgeSeqsOfSize(_)
\* the edges that hold k edges in all, their own included
EdgesOfSize(k) ==
    (IF k = 1 THEN AtomEdges ELSE {})
    \cup UNION {NodeEdges(n) : n \in NodesOfSize(k - 1)}
\* the edge sequences that hold k edges in all
EdgeSeqsOfSize(k) ==
    IF k = 0 THEN {<<>>}
    ELSE UNION { {<<e>> \o rest : e \in EdgesOfSize(j),
                                  rest \in EdgeSeqsOfSize(k - j)} :
                 j \in 1..k }
\* the nodes with an id that hold k edges in all
NodesOfSize(k) == {Node(id, es) : id \in Ids, es \in EdgeSeqsOfSize(k)}

\* Trees outside what parse returns, and Trees with metadata
OtherTrees ==
    { Tree(Node(None, <<>>), <<>>),
      Tree(Node(None, <<Edge(Role, AtomTarget(<<"x">>), <<>>)>>), <<>>),
      Tree(Node(<<"a">>, <<Edge(Role, NodeTarget(Node(None, <<>>)), <<>>)>>),
           <<>>),
      Tree(Node(<<"a">>, <<Edge(<<"r">>, AtomTarget(<<"x">>), <<>>)>>), <<>>),
      Tree(Node(<<"a">>, <<Edge(Role, NodeTarget(Node(<<"b", "b">>, <<>>)),
                                <<TargetMark>>)>>), <<>>),
      Tree(Node(<<"a">>, <<Edge(Role, AtomTarget(<<"x">>),
                                <<RoleMark, RoleMark>>)>>), <<>>),
      Tree(Node(<<"a">>, <<Edge(<<"/">>, NodeTarget(Node(<<"b", "b">>, <<>>)),
                                <<>>)>>), <<>>),
      Tree(Node(<<"a">>, <<Edge(Role, NodeTarget(Node(<<"b", "b">>,
                               <<Edge(Role, AtomTarget(<<"x">>), <<>>),
                                 Edge(Role, NodeTarget(Node(<<"a">>,
                                     <<Edge(Role, NoTarget, <<>>),
                                       Edge(Role, AtomTarget(<<"x">>), <<>>)>>)),
                                      <<>>)>>)), <<>>)>>), <<>>),
      Tree(Node(<<"a">>, <<Edge(<<"/">>, AtomTarget(<<"x">>), <<>>)>>),
           << <<<<"i", "d">>, <<"1">>>> >>),
      Tree(Node(<<"a">>, <<Edge(<<"/">>, AtomTarget(<<"x">>), <<>>),
                           Edge(Role, NodeTarget(Node(<<"b", "b">>,
                               <<Edge(Role, NoTarget, <<>>)>>)), <<>>)>>),
           << <<<<"i", "d">>, <<"1">>>>, <<<<"d", "t">>, <<"2", "0">>>> >>) }

\* the Trees without metadata that hold at most n edges, and the others
TreesUpTo(n) ==
    {Tree(m, <<>>) : m \in UNION {NodesOfSize(k) : k \in 0..n}}
    \cup OtherTrees

InitFormat ==
    /\ tree \in TreesUpTo(MaxEdges)
    /\ pc = "format"
    /\ lexer = [alphabet |-> {}, limit |-> 0]
    /\ tokens = <<>>
    /\ pos = 0
    /\ stack = <<>>
    /\ meta = <<>>
    /\ triples = <<>>
    /\ Idle

SpecFormat == InitFormat /\ [][NextFormat]_vars

\* ---- parse, format, parse again
RTAlphabet ==
    { Tok("LPAREN", <<"(">>), Tok("RPAREN", <<")">>), Tok("SLASH", <<"/">>),
      Tok("ROLE", Role), Tok("SYMBOL", <<"a">>),
      Tok("ALIGNMENT", <<"~", "e", ".", "1">>), Tok("ALIGNMENT", <<"~", "1">>),
      Tok("COMMENT", <<"#", " ", ":", ":", "i", "d", " ", "1">>) }

InitRT ==
    /\ lexer = [alphabet |-> RTAlphabet, limit |-> MaxRTTokens]
    /\ tokens \in {<<t>> : t \in RTAlphabet \cup {EOFToken}}
    /\ pos = 0
    /\ pc = AfterComment(tokens[1].type)
    /\ stack = <<>>
    /\ meta = <<>>
    /\ tree = NoTree
    /\ triples = <<>>
    /\ Idle

SpecRT == InitRT /\ [][NextRT]_vars

\* ---- the metadata of a document
Keys == {<<"i", "d">>, <<"d", "t">>}
Values == {<<"1">>, <<"2">>}
\* ` ::key value`
PairText(k, v) == <<" ", ":", ":">> \o k \o <<" ">> \o v
\* the comment lines that hold one pair, or two
CommentLines ==
    {<<"#">> \o PairText(k, v) : k \in Keys, v \in Values}
    \cup {<<"#">> \o PairText(k, v) \o PairText(k2, v2) :
             k \in Keys, v \in Values, k2 \in Keys, v2 \in Values}

RECURSIVE CommentSeqs(_)
CommentSeqs(n) ==
    IF n = 0 THEN {<<>>}
    ELSE CommentSeqs(n - 1)
         \cup {Append(s, Tok("COMMENT", c)) :
                  s \in {u \in CommentSeqs(n - 1) : Len(u) = n - 1},
                  c \in CommentLines}

\* a document: comment lines, then the node (a)
InitMeta ==
    /\ lexer = [alphabet |-> {}, limit |-> 0]
    /\ tokens \in {cs \o <<Tok("LPAREN", <<"(">>), Tok("SYMBOL", <<"a">>),
                          Tok("RPAREN", <<")">>)>> :
                   cs \in CommentSeqs(MaxComments)}
    /\ pos = 0
    /\ pc = AfterComment(tokens[1].type)
    /\ stack = <<>>
    /\ meta = <<>>
    /\ tree = NoTree
    /\ triples = <<>>
    /\ Idle

NextMeta == ParseComment \/ NodeOpen \/ NodeId \/ NodeClose \/ FormatTree

SpecMeta == InitMeta /\ [][NextMeta]_vars

\* ------------------------------------------------- reading a parsed tree
\* the edges of a node and of the nodes below it, in document order
RECURSIVE EdgeList(_)
EdgeList(es) ==
    IF es = <<>> THEN <<>>
    ELSE LET e == Head(es)
         IN <<e>> \o (IF e.target[1] = "node"
                      THEN EdgeList(e.target[2].edges) ELSE <<>>)
                  \o EdgeList(Tail(es))

\* the markers of a list of edges, in order
RECURSIVE MarkerList(_)
MarkerList(es) ==
    IF es = <<>> THEN <<>> ELSE Head(es).epi \o MarkerList(Tail(es))

Consumed == SubSeq(tokens, 1, pos)
IsAlignmentToken(t) == t.type = "ALIGNMENT"
IsEdgeToken(t) == t.type \in {"ROLE", "SLASH"}
\* the indices of the consumed tokens that open an edge, ascending
RECURSIVE EdgeTokenIndices(_)
EdgeTokenIndices(n) ==
    IF n = 0 THEN <<>>
    ELSE IF IsEdgeToken(tokens[n]) THEN Append(EdgeTokenIndices(n - 1), n)
    ELSE EdgeTokenIndices(n - 1)
\* the index of the token after the role at i and its optional alignment
TargetIndex(i) ==
    IF i + 1 <= Len(tokens) /\ tokens[i + 1].type = "ALIGNMENT"
    THEN i + 2 ELSE i + 1

Terminated == pc \in {"done", "t_done", "error"}

\* ------------------------------------------------------------------- C4
\* C4 (as claimed): in every Tree returned by parse, every marker in an
\* edge's epigraph has a non-empty index sequence.
C4_NoEmptyMarker ==
    pc = "done" =>
        \A k \in 1..Len(MarkerList(EdgeList(tree.node.edges))) :
            MarkerList(EdgeList(tree.node.edges))[k].indices # <<>>

\* C4 (amended): in every Tree returned by parse, each ALIGNMENT token that
\* was consumed has exactly one marker, in token order, in the epigraph of
\* its edge; the marker's index sequence is non-empty exactly when the
\* token's text has parseable indices, and otherwise the marker is the empty
\* one (indices (), prefix none).
C4_MarkerPerToken ==
    pc = "done" =>
        LET ms == MarkerList(EdgeList(tree.node.edges))
            at == SelectSeq(Consumed, IsAlignmentToken)
        IN /\ Len(ms) = Len(at)
           /\ \A k \in 1..Len(ms) :
                /\ (ms[k].indices # <<>>) <=> ReMatch(at[k].text).matched
                /\ ms[k].indices = <<>> => ms[k].prefix = None

\* a Tree was returned whose epigraphs hold an empty marker
C4_Witness ==
    /\ pc = "done"
    /\ \E k \in 1..Len(MarkerList(EdgeList(tree.node.edges))) :
          MarkerList(EdgeList(tree.node.edges))[k].indices = <<>>

\* ------------------------------------------------------------------- C6
\* the rule at the step that consumes a role, or the alignment of a role
C6_Step ==
    LET la == tokens'[pos' + 1].type
        f == stack'[Len(stack')]
    IN (/\ pos' = pos + 1
        /\ \/ pc = "role" /\ Peek.type = "ROLE" /\ la # "ALIGNMENT"
           \/ pc = "role_align")
       => /\ la \in ATOMS => pc' = "atom"
          /\ la = "LPAREN" => pc' = "open"
          /\ la \in {"ROLE", "RPAREN"} =>
                /\ pc' = (IF la = "ROLE" THEN "role" ELSE "close")
                /\ Len(f.edges) = Len(Top.edges) + 1
                /\ f.edges[Len(f.edges)].target = NoTarget
          /\ la \notin ATOMS \cup {"LPAREN", "ROLE", "RPAREN"} =>
                pc' = "error"

\* what the rule leaves behind: no Tree after an error, and in a returned
\* Tree one edge per role (and per '/'), with the target its tokens give
C6_Result ==
    /\ pc = "error" => ~tree.ok
    /\ \A i \in 1..pos :
          (/\ tokens[i].type = "ROLE"
           /\ TargetIndex(i) <= Len(tokens)
           /\ TargetIndex(i) - 1 <= pos
           /\ tokens[TargetIndex(i)].type
                 \notin ATOMS \cup {"LPAREN", "ROLE", "RPAREN"})
          => pc = "error"
    /\ pc = "done" =>
          LET es == EdgeList(tree.node.edges)
              at == EdgeTokenIndices(pos)
          IN /\ tree.ok
             /\ Len(es) = Len(at)
             /\ \A k \in 1..Len(es) :
                   tokens[at[k]].type = "ROLE" =>
                      LET t == tokens[TargetIndex(at[k])]
                      IN /\ es[k].role = tokens[at[k]].text
                         /\ t.type \in ATOMS =>
                               es[k].target = AtomTarget(t.text)
                         /\ t.type = "LPAREN" => es[k].target[1] = "node"
                         /\ t.type \in {"ROLE", "RPAREN"} =>
                               es[k].target = NoTarget

\* C6: after a ROLE token and its optional alignment marker, an atom is the
\* edge's target, '(' opens the nested node that is the target, a ROLE or ')'
\* leaves the target none and is not consumed by the edge, and any other
\* token is a syntax error with no Tree; so every role of a returned Tree has
\* its own edge, in source order.
C6_EdgeTargetRule == [][C6_Step /\ C6_Result']_vars

ExampleDangling ==
    << Tok("LPAREN", <<"(">>), Tok("SYMBOL", <<"a">>),
       Tok("ROLE", <<":", "A", "R", "G", "0">>),
       Tok("ROLE", <<":", "A", "R", "G", "1">>),
       Tok("SYMBOL", <<"b">>), Tok("RPAREN", <<")">>) >>

\* `(a :ARG0 :ARG1 b)` was parsed: two edges, the first with no target
C6_Witness ==
    /\ pc = "done"
    /\ Consumed = ExampleDangling
    /\ tree.node = Node(<<"a">>,
          << Edge(<<":", "A", "R", "G", "0">>, NoTarget, <<>>),
             Edge(<<":", "A", "R", "G", "1">>, AtomTarget(<<"b">>), <<>>) >>)

\* ------------------------------------------------------------------- C7
\* a token stream of the form  relation ( source , target? )  repeated with
\* ^ between the repetitions, and the triples it denotes
RECURSIVE ConjunctionTriples(_)
ConjunctionTriples(ts) ==
    LET n == IF Len(ts) >= 6 /\ ts[5].type \in ATOMS THEN 6 ELSE 5
        ok == /\ Len(ts) >= 5
              /\ ts[1].type = "SYMBOL" /\ ts[2].type = "LPAREN"
              /\ ts[3].type = "SYMBOL" /\ ts[4].type = "COMMA"
              /\ ts[n].type = "RPAREN"
        triple == <<ts[3].text, ts[1].text,
                    IF n = 6 THEN AtomTarget(ts[5].text) ELSE NoTarget>>
        rest == IF Len(ts) > n + 1 /\ ts[n + 1].type = "CARET"
                THEN ConjunctionTriples(SubSeq(ts, n + 2, Len(ts)))
                ELSE [ok |-> FALSE, triples |-> <<>>]
    IN IF ~ok THEN [ok |-> FALSE, triples |-> <<>>]
       ELSE IF Len(ts) = n THEN [ok |-> TRUE, triples |-> <<triple>>]
       ELSE [ok |-> rest.ok, triples |-> <<triple>> \o rest.triples]

\* the whole stream, as far as it is known: without the end marker
Stream == SelectSeq(tokens, LAMBDA t : t.type # "EOF")

\* C7 (as claimed): parse_triples returns exactly when the whole token
\* stream is a conjunction of  relation ( source , target? ), and then
\* returns its triples in order (target none where the conjunct has none);
\* on any other stream it raises and returns no triples.
C7_TripleContract ==
    /\ pc = "t_done" =>
          /\ ConjunctionTriples(Stream).ok
          /\ triples = ConjunctionTriples(Stream).triples
    /\ pc = "error" => triples = <<>>

\* ------------------------------------------------------------------ C10
C10_Step ==
    /\ \/ pos' = pos + 1
       \/ pos' = pos /\ Peek.type = "EOF" /\ pc' = "error"
    /\ Len(tokens') >= Len(tokens)
    /\ SubSeq(tokens', 1, Len(tokens)) = tokens
    /\ Len(tokens') <= pos' + 1

\* C10: parse and parse_triples end, with a result or a syntax error, on
\* every finite token stream; the cursor only moves forward, by one token at
\* a step, the tokens already delivered are never delivered again, at most one
\* token beyond the consumed ones has been fetched, and every step of every
\* loop consumes a token.
C10_Terminates == [][C10_Step]_vars /\ <>Terminated

\* a stream of full length was parsed into a Tree with a nested node
C10_Witness ==
    /\ pc = "done"
    /\ pos = MaxTokens
    /\ \E k \in 1..Len(tree.node.edges) : tree.node.edges[k].target[1] = "node"
\* ---------------------------------------------------- reading a formatted text
\* the elements of a set of numbers, ascending
Ascending(S) ==
    [k \in 1..Cardinality(S) |->
        CHOOSE p \in S : Cardinality({q \in S : q < p}) = k - 1]

\* the index of the last line break before index i, or 0
LineStart(s, i) ==
    LET breaks == {k \in 1..(i - 1) : s[k] = "\n"}
    IN IF breaks = {} THEN 0 ELSE CHOOSE k \in breaks : \A j \in breaks : j <= k

\* the line that holds index i (the first line is 1), and i's 0-based column
LineOf(s, i) == Cardinality({k \in 1..(i - 1) : s[k] = "\n"}) + 1
ColumnOf(s, i) == i - 1 - LineStart(s, i)

\* nothing but spaces stands before index i on its line
FirstOnLine(s, i) == \A k \in (LineStart(s, i) + 1)..(i - 1) : s[k] = " "

\* how many parentheses are open before index i
DepthAt(s, i) ==
    Cardinality({k \in 1..(i - 1) : s[k] = "("})
    - Cardinality({k \in 1..(i - 1) : s[k] = ")"})

\* the index of the opening parenthesis of the node that holds index i: the
\* nearest one before i that is still open
OwnerOf(s, i) ==
    LET open == {k \in 1..(i - 1) : s[k] = "(" /\ DepthAt(s, k) + 1 = DepthAt(s, i)}
    IN CHOOSE k \in open : \A j \in open : j <= k

\* the indices at which the edges of the text start (a role, or the `/` of a
\* label), ascending
EdgeStarts(s) ==
    SelectSeq(TokenStarts(s, 1),
              LAMBDA i : TokenAt(s, i).type \in {"ROLE", "SLASH"})

\* a node without its alignment markers
RECURSIVE StripEpi(_)
StripEpi(n) ==
    Node(n.id,
         [i \in 1..Len(n.edges) |->
             Edge(n.edges[i].role,
                  IF n.edges[i].target[1] = "node"
                  THEN NodeTarget(StripEpi(n.edges[i].target[2]))
                  ELSE n.edges[i].target,
                  <<>>)])

\* two nodes without markers are equal up to the order of their edges
RECURSIVE SameUpToOrder(_, _)
SameUpToOrder(n, m) ==
    /\ n.id = m.id
    /\ Len(n.edges) = Len(m.edges)
    /\ \E p \in [1..Len(n.edges) -> 1..Len(n.edges)] :
          /\ \A i, j \in 1..Len(n.edges) : p[i] = p[j] => i = j
          /\ \A i \in 1..Len(n.edges) :
                LET e == n.edges[i]
                    f == m.edges[p[i]]
                IN /\ e.role = f.role
                   /\ e.target[1] = f.target[1]
                   /\ IF e.target[1] = "node"
                      THEN SameUpToOrder(e.target[2], f.target[2])
                      ELSE e.target = f.target

\* the second parse has ended, with a Tree or with a syntax error
Reparsed == tree0.ok /\ pc \in {"done", "error"}

\* ------------------------------------------------------------------- C1
\* C1 (as claimed): for every token stream that parse accepts, and every
\* indent mode and value of compact, the formatted Tree parses again, into a
\* Tree equal to the first one: same root id, same edges in the same order
\* with the same roles, targets and markers, same metadata.
C1_Idempotent == Reparsed => (pc = "done" /\ tree = tree0)

\* ------------------------------------------------------------------- C2
\* what format writes of a Tree can be read back
RECURSIVE WellFormedNode(_)
\* the text s is written as one token, of a type in types
OneToken(s, types) ==
    s # <<>> /\ Len(Lex(s)) = 1 /\ Lex(s)[1].text = s /\ Lex(s)[1].type \in types

\* the text s holds the text part
Holds(s, part) ==
    \E i \in 1..(Len(s) - Len(part) + 1) : SubSeq(s, i, i + Len(part) - 1) = part

WellFormedEdge(e, i) ==
    LET roleMarks == Len(SelectSeq(e.epi, LAMBDA m : m.mode = RoleAlignment))
        targetMarks == Len(SelectSeq(e.epi, LAMBDA m : m.mode = Alignment))
    IN /\ targetMarks <= (IF e.target[1] = "atom" THEN 1 ELSE 0)
       /\ e.target[1] = "atom" => OneToken(e.target[2], ATOMS)
       /\ IF e.role = <<"/">>
          THEN i = 1 /\ e.target[1] # "node" /\ roleMarks = 0
          ELSE /\ OneToken(e.role, {"ROLE"})
               /\ roleMarks <= 1
               /\ e.target[1] = "node" => WellFormedNode(e.target[2])
WellFormedNode(n) ==
    /\ n.id # None \/ n.edges = <<>>
    /\ n.id # None => OneToken(n.id, IDENTIFIERS)
    /\ \A i \in 1..Len(n.edges) : WellFormedEdge(n.edges[i], i)
WellFormed(t) ==
    /\ WellFormedNode(t.node)
    /\ \A i \in 1..Len(t.metadata) :
          /\ ~Holds(t.metadata[i][1], <<" ">>)
          /\ \A k \in 1..2 : /\ ~Holds(t.metadata[i][k], <<":", ":">>)
                             /\ ~Holds(t.metadata[i][k], <<"\n">>)
    /\ \A i, j \in 1..Len(t.metadata) :
          t.metadata[i][1] = t.metadata[j][1] => i = j

LeadingRun(edges, ids) ==
    LET ok(i) == IsAtomic(edges[i].target) /\ ~Aliased(edges[i].target, ids)
        runs == {n \in 0..Len(edges) : \A i \in 1..n : ok(i)}
    IN CHOOSE n \in runs : \A m \in runs : m <= n

\* the edges that format writes, in the order of the text: for each its role
\* as written, whether it is the first edge of its node and whether it is in
\* its node's leading run
RECURSIVE EdgePlan(_, _)
EdgePlan(n, ids) ==
    IF n.id = None THEN <<>>
    ELSE Concat([i \in 1..Len(n.edges) |->
            << [role |-> RoleText(n.edges[i].role),
                first |-> i = 1,
                lead |-> i <= LeadingRun(n.edges, ids)] >>
            \o (IF n.edges[i].target[1] = "node"
                THEN EdgePlan(n.edges[i].target[2], ids) ELSE <<>>)])

\* the edge that starts at index i is written on the opening line of its
\* node, after a space
OnOpeningLine(s, i) ==
    /\ LineOf(s, i) = LineOf(s, OwnerOf(s, i))
    /\ s[i - 1] = " "

\* format was called with compact=true and an indent that breaks lines
CompactCall ==
    pc = "formatted" /\ layout.compact /\ layout.indent # IndentNone

\* the text holds the planned edges, in order, each with its role, at the
\* indices at
EdgesInOrder(s, at, plan) ==
    /\ Len(at) = Len(plan)
    /\ \A k \in 1..Len(plan) :
          SubSeq(s, at[k], TokenAt(s, at[k]).last) = plan[k].role

\* C8 (as claimed): with compact=true and a line-breaking indent, in every
\* node with an id and an edge the leading run of edges with atomic,
\* un-aliased targets is written on the node's opening line, and every edge
\* from the first non-atomic or aliased target onward starts its own new
\* line; the edges are written in the Tree's order.
C8_CompactLayout ==
    CompactCall =>
        LET plan == EdgePlan(tree0.node, NodeIds(tree0.node))
            at == EdgeStarts(text)
        IN /\ EdgesInOrder(text, at, plan)
           /\ \A k \in 1..Len(plan) :
                 IF plan[k].lead THEN OnOpeningLine(text, at[k])
                 ELSE FirstOnLine(text, at[k])

\* C8 (amended): with compact=true and a line-breaking indent, in every node
\* that format writes with its edges the opening line holds the leading run
\* of edges whose targets are atomic or none and are no node's id, or, when
\* that run is empty, the node's first edge; every later edge starts its own
\* new line; the edges are written in the Tree's order.
C8_CompactLayoutFirstEdge ==
    CompactCall =>
        LET plan == EdgePlan(tree0.node, NodeIds(tree0.node))
            at == EdgeStarts(text)
        IN /\ EdgesInOrder(text, at, plan)
           /\ \A k \in 1..Len(plan) :
                 IF plan[k].lead \/ plan[k].first
                 THEN OnOpeningLine(text, at[k])
                 ELSE FirstOnLine(text, at[k])

\* a node whose first two edges target atoms and whose third targets a
\* nested node was written compactly: two lines
C8_Witness ==
    /\ CompactCall
    /\ Len(tree0.node.edges) = 3
    /\ LeadingRun(tree0.node.edges, NodeIds(tree0.node)) = 2
    /\ tree0.node.edges[1].target[1] = "atom"
    /\ tree0.node.edges[2].target[1] = "atom"
    /\ tree0.node.edges[3].target[1] = "node"
    /\ LineOf(text, Len(text)) = 2

\* ------------------------------------------------------------------- C9
\* the indices of the line breaks after which an edge starts the line
EdgeBreaks(s) ==
    {i \in 1..Len(s) :
        /\ s[i] = "\n"
        /\ \E j \in (i + 1)..Len(s) :
              /\ s[j] \in {":", "/"}
              /\ \A k \in (i + 1)..(j - 1) : s[k] = " "}

\* the number of spaces that follow index i
SpacesAfter(s, i) ==
    LET stops == {j \in (i + 1)..Len(s) : s[j] # " "}
    IN (CHOOSE j \in stops : \A k \in stops : j <= k) - i - 1

\* the length of the id that follows the parenthesis at index o
IdLength(s, o) == RunEnd(s, o + 1) - o

\* C9: in format's output, every edge that starts a new line is preceded by
\* exactly k spaces: under indent auto, k is the column of the opening
\* parenthesis of the node that owns the edge, plus the length of that
\* node's id, plus 2; under a fixed indent n, k is n times the nesting depth
\* of the owning node (the root at depth 1).  With compact false and true,
\* and below edges that carry role markers.
C9_Columns ==
    (pc = "formatted" /\ layout.indent # IndentNone) =>
        \A i \in EdgeBreaks(text) :
            LET o == OwnerOf(text, i)
            IN SpacesAfter(text, i) =
                  IF layout.indent = IndentAuto
                  THEN ColumnOf(text, o) + IdLength(text, o) + 2
                  ELSE layout.indent[2] * DepthAt(text, i)

\* under indent auto, an edge starts a line two levels down, below an edge
\* that carries a role marker
C9_Witness ==
    /\ pc = "formatted" /\ layout.indent = IndentAuto
    /\ \E i \in EdgeBreaks(text) :
          /\ DepthAt(text, i) = 2
          /\ SpacesAfter(text, i) > 6
          /\ \E e \in 1..Len(tree0.node.edges) :
                /\ tree0.node.edges[e].target[1] = "node"
                /\ tree0.node.edges[e].epi = <<RoleMark>>
                /\ Len(tree0.node.edges[e].target[2].edges) = 2

\* ------------------------------------------------------------------- C3
\* the text after an optional letter and an optional `.` behind the letter
AfterPrefix(s) ==
    IF s # <<>> /\ IsLetter(s[1])
    THEN IF Len(s) >= 2 /\ s[2] = "." THEN SubSeq(s, 3, Len(s))
         ELSE SubSeq(s, 2, Len(s))
    ELSE s

\* some leading part of s has the form: prefix, then integers
StartsWithForm(s) ==
    \E e \in 1..Len(s) : IsIndexList(AfterPrefix(SubSeq(s, 1, e)))

\* C3 (as claimed): decoding never fails; a marker text of the form `~`, an
\* optional one-letter prefix (possibly followed by `.`), then one or more
\* comma-separated integers decodes to prefix = that letter (none without a
\* letter) and indices = the integers in text order; a marker text that does
\* not match the pattern decodes to prefix none and indices ().  (A text
\* that has the form at its start and other characters behind it is read in
\* the code's favour: nothing is asked of it.)
C3_Decoding ==
    pc = "aligned" =>
        LET s == SubSeq(text, 2, Len(text))
        IN /\ IsIndexList(AfterPrefix(s)) =>
                /\ marker.prefix = (IF IsLetter(s[1]) THEN <<s[1]>> ELSE None)
                /\ marker.indices = Indices(AfterPrefix(s))
           /\ ~StartsWithForm(s) =>
                marker.prefix = None /\ marker.indices = <<>>

\* ------------------------------------------------------------------- C5
\* a text without its trailing spaces
RStrip(s) ==
    LET keep == {k \in 0..Len(s) : \A j \in (k + 1)..Len(s) : s[j] = " "}
    IN SubSeq(s, 1, CHOOSE k \in keep : \A j \in keep : k <= j)

\* the `::key value` pairs of a comment line, left to right
PairsOfLine(c) ==
    LET at == Ascending({i \in 1..(Len(c) - 1) : c[i] = ":" /\ c[i + 1] = ":"})
        piece(k) == SubSeq(c, at[k] + 2,
                           IF k < Len(at) THEN at[k + 1] - 1 ELSE Len(c))
    IN [k \in 1..Len(at) |->
           <<Partition(piece(k)).head, RStrip(Partition(piece(k)).tail)>>]

\* the pairs of the leading comments, in document order
RECURSIVE DocumentPairs(_)
DocumentPairs(ts) ==
    IF ts = <<>> \/ Head(ts).type # "COMMENT" THEN <<>>
    ELSE PairsOfLine(Head(ts).text) \o DocumentPairs(Tail(ts))

\* each key with the value of its last occurrence, the keys in the order of
\* their first occurrence
RECURSIVE LastWins(_, _)
LastWins(d, pairs) ==
    IF pairs = <<>> THEN d
    ELSE LastWins(DictSet(d, Head(pairs)[1], Head(pairs)[2]), Tail(pairs))

\* C5 (as claimed): for leading comments with one or several `::key value`
\* pairs a line, the metadata maps each key to the value of its last
\* occurrence in document order and holds the keys in the order of their
\* first occurrence in document order; format writes them in that order.
C5_DocumentOrder ==
    LET expected == LastWins(<<>>, DocumentPairs(tokens))
        stripped(d) == [i \in 1..Len(d) |-> <<d[i][1], RStrip(d[i][2])>>]
    IN /\ pc = "done" => stripped(tree.metadata) = expected
       /\ pc = "formatted" =>
             \A k \in 1..Len(expected) :
                 /\ k <= Len(Lex(text))
                 /\ RStrip(Lex(text)[k].text) = MetaLine(expected[k])


====
